---- MODULE Spec2Model ----
(***************************************************************************)
(* OpenVehicleDiag: the KWP2000 diagnostic session window                  *)
(* (app_rust/src/windows/diag_session/kwp2000_session.rs) and the          *)
(* process-wide passthru DRIVER singleton of the node binding              *)
(* (app/src/lib.rs).                                                       *)
(*                                                                         *)
(* Spec       : the session window: KWP2000DiagSession::update handling    *)
(*              any sequence of messages, the ECU side acting on its own,  *)
(*              and the final drop of the window.                          *)
(* DriverSpec : connect_device / get_vbatt called from several threads,    *)
(*              one step per acquisition of the DRIVER lock.               *)
(***************************************************************************)
EXTENDS Integers, Sequences, FiniteSets, TLC

\* ------------------------------------------------------------------ bounds
\* Diagnostic sessions start_diag_session may hand out in one run.
MaxSessions == 2
\* Fault records the ECU can hold.
MaxFaults == 2

\* Threads calling into the node binding at once.
NumThreads == 2
\* Calls into the node binding in one run.
MaxCalls == 3

\* Option::None for diag_server / get_last_error / DRIVER.
None == 0

VARIABLES
    \* KWP2000DiagSession (kwp2000_session.rs:44-59)
    diag_server,      \* Option<KWP2000ECU>: None or the id of the held session
    can_clear_codes,
    can_send,
    payload_string,   \* sequence of one-character strings
    logged,           \* the entries the last step appended to logview
    \* window::disable_home / enable_home
    home_enabled,
    \* the KWP2000ECU objects handed out so far, by id
    ecu,              \* id -> [made, in_diag, exits, last_error]
    ecu_dtcs,         \* number of fault records stored in the ECU
    \* observation of one step
    handled,          \* the message the last step handled ("-" : not a message)
    wire,             \* the KWP2000ECU calls the last step made, in order
    dropped,          \* the window has been dropped
    \* app/src/lib.rs
    DRIVER,           \* passthru::DRIVER: None or the loaded library
    pc,               \* thread -> the line its call has reached ("idle": no call)
    ret,              \* thread -> what its last finished call returned
    ncalls,           \* calls begun so far
    installed,        \* the libraries DRIVER.replace() has put in, in order
    loads,            \* PassthruDrv::load_lib calls so far
    opens,            \* PassthruDrv::open calls so far
    ioctls            \* the raw status of each PassthruDrv::ioctl call so far

session_vars == <<diag_server, can_clear_codes, can_send, payload_string, logged,
                  home_enabled, ecu, ecu_dtcs, handled, wire, dropped>>

driver_vars == <<DRIVER, pc, ret, ncalls, installed, loads, opens, ioctls>>

vars == <<session_vars, driver_vars>>

SessionIds == 1..MaxSessions

\* --------------------------------------------------------------- hex crate
HexChars == <<"0", "1", "2", "3", "4", "5", "6", "7",
              "8", "9", "A", "B", "C", "D", "E", "F">>
LowerHexChars == <<"0", "1", "2", "3", "4", "5", "6", "7",
                   "8", "9", "a", "b", "c", "d", "e", "f">>

IsHexChar(c) == \E i \in 1..16 : HexChars[i] = c \/ LowerHexChars[i] = c

HexVal(c) == (CHOOSE i \in 1..16 : HexChars[i] = c \/ LowerHexChars[i] = c) - 1

\* hex::decode: odd length and non-hex characters are errors, otherwise one
\* byte per pair of characters, high nibble first.
hex_decode(s) ==
    IF Len(s) % 2 # 0 THEN [ok |-> FALSE, bytes |-> <<>>]
    ELSE IF \E i \in 1..Len(s) : ~IsHexChar(s[i]) THEN [ok |-> FALSE, bytes |-> <<>>]
    ELSE [ok |-> TRUE,
          bytes |-> [i \in 1..(Len(s) \div 2) |->
                        (HexVal(s[2 * i - 1]) * 16 + HexVal(s[2 * i])) % 256]]

\* format!("{:02X?}", bytes): "[62, F1, 90]", as a sequence of tokens, one
\* per bracket, separator and hex digit.
FmtByte(b) == <<HexChars[(b \div 16) + 1], HexChars[(b % 16) + 1]>>

RECURSIVE FmtTail(_, _)
FmtTail(bytes, i) ==
    IF i > Len(bytes) THEN <<>>
    ELSE (IF i = 1 THEN <<>> ELSE <<", ">>) \o FmtByte(bytes[i]) \o FmtTail(bytes, i + 1)

Fmt02X(bytes) == <<"[">> \o FmtTail(bytes, 1) \o <<"]">>

\* ------------------------------------------------------------------ inputs
\* The strings the payload text input delivers.
PayloadInputs ==
    { <<>>,
      <<"0", "1">>,
      <<"0", "1", "0", "0">>,
      <<"2", "2", "F", "1", "9", "0">>,
      <<"0", "1", "0">>,
      <<"0", "1", "z", "z">> }

\* What the backend answers to a command.
RunResponses == { <<98, 241, 144, 170, 187>>, <<65>> }

\* e.get_text() of a ProtocolError.
ErrTexts == { "ECU timeout", "ECU negative response" }

\* ----------------------------------------------------------------- LogView
Entry(type, text, detail) == [type |-> type, text |-> text, detail |-> detail]

\* logview.add_msg(text, type)
add_msg(text, type) == Entry(type, text, <<>>)

\* logview.add_log(req, resp, type)
add_log(req, resp, type) == Entry(type, req, resp)

\* ------------------------------------------------------------- KWP2000ECU
Call(op, sid, service, payload, ok, bytes, n, err) ==
    [op |-> op, sid |-> sid, service |-> service, payload |-> payload,
     ok |-> ok, bytes |-> bytes, n |-> n, err |-> err]

NoEcu == [made |-> FALSE, in_diag |-> FALSE, exits |-> 0, last_error |-> ""]

\* s.is_in_diag_session()
is_in_diag_session(s) == ecu[s].in_diag

\* s.get_last_error(): Some(text) when the text is not "".
get_last_error(s) == ecu[s].last_error

\* s.exit_diag_session(): the session stops; one more release is counted.
exit_diag_session(e, s) ==
    [e EXCEPT ![s].in_diag = FALSE, ![s].exits = @ + 1]

\* ECU fault record i, as DTC.error.
DtcError(i) == "P010" \o ToString(i)

\* The session ids not handed out yet.
FreshIds == { s \in SessionIds : ~ecu[s].made }

\* KWP2000ECU::start_diag_session(server, &ecu): Ok(session) or Err(e).
\* Sessions are numbered in the order they are handed out.
StartOutcomes ==
    { [ok |-> TRUE, sid |-> s, err |-> ""] : s \in { x \in FreshIds : \A y \in FreshIds : x <= y } }
    \cup { [ok |-> FALSE, sid |-> None, err |-> e] : e \in ErrTexts }

\* s.clear_errors(), s.read_errors(), s.run_command(..): Ok or Err(e); a
\* session that is no longer in a diagnostic session only fails.
Outcomes(s) == (IF is_in_diag_session(s) THEN {[ok |-> TRUE, err |-> ""]} ELSE {})
               \cup { [ok |-> FALSE, err |-> e] : e \in ErrTexts }

\* Ok(errors) of read_errors: the ECU's stored records, in order.
StoredErrors == [i \in 1..ecu_dtcs |-> DtcError(i)]

\* -------------------------------------------------------------------- init
SessionInit ==
    /\ diag_server = None
    /\ can_clear_codes = FALSE
    /\ can_send = FALSE
    /\ payload_string = <<>>
    /\ logged = <<>>
    /\ home_enabled = TRUE
    /\ ecu = [s \in SessionIds |-> NoEcu]
    /\ ecu_dtcs = 0
    /\ handled = "-"
    /\ wire = <<>>
    /\ dropped = FALSE

\* ------------------------------------------------ KWP2000DiagSession::update
\* On Ok the new session is stored over whatever diag_server held: the old
\* KWP2000ECU value is let go without any call on it.
ConnectECU ==
    /\ ~dropped
    /\ UNCHANGED driver_vars
    /\ \E r \in StartOutcomes :
          /\ wire' = <<Call("start_diag_session", r.sid, 0, <<>>, r.ok, <<>>, 0, r.err)>>
          /\ IF r.ok
             THEN /\ home_enabled' = FALSE
                  /\ diag_server' = r.sid
                  /\ ecu' = [ecu EXCEPT ![r.sid] =
                               [made |-> TRUE, in_diag |-> TRUE, exits |-> 0, last_error |-> ""]]
                  /\ logged' = <<add_msg(<<"Connection to ECU established">>, "Info")>>
             ELSE /\ logged' = <<add_msg(<<"Error connecting to ECU (", r.err, ")">>, "Info")>>
                  /\ UNCHANGED <<home_enabled, diag_server, ecu>>
    /\ handled' = "ConnectECU"
    /\ UNCHANGED <<can_clear_codes, can_send, payload_string, ecu_dtcs, dropped>>

\* DisconnectECU without `self.diag_server.take()`.
DisconnectECU_KeepsSession ==
    /\ ~dropped
    /\ UNCHANGED driver_vars
    /\ IF diag_server # None
       THEN /\ ecu' = exit_diag_session(ecu, diag_server)
            /\ wire' = <<Call("exit_diag_session", diag_server, 0, <<>>, TRUE, <<>>, 0, "")>>
       ELSE /\ wire' = <<>>
            /\ UNCHANGED ecu
    /\ logged' = <<add_msg(<<"Connection to ECU terminated">>, "Info")>>
    /\ home_enabled' = TRUE
    /\ handled' = "DisconnectECU"
    /\ UNCHANGED <<diag_server, can_clear_codes, can_send, payload_string, ecu_dtcs, dropped>>

DisconnectECU ==
    /\ ~dropped
    /\ UNCHANGED driver_vars
    /\ IF diag_server # None
       THEN /\ ecu' = exit_diag_session(ecu, diag_server)
            /\ wire' = <<Call("exit_diag_session", diag_server, 0, <<>>, TRUE, <<>>, 0, "")>>
       ELSE /\ wire' = <<>>
            /\ UNCHANGED ecu
    /\ logged' = <<add_msg(<<"Connection to ECU terminated">>, "Info")>>
    /\ diag_server' = None
    /\ home_enabled' = TRUE
    /\ handled' = "DisconnectECU"
    /\ UNCHANGED <<can_clear_codes, can_send, payload_string, ecu_dtcs, dropped>>

\* PollServer whose teardown omits `window::enable_home()`.
PollServer_NoEnableHome ==
    /\ ~dropped
    /\ UNCHANGED driver_vars
    /\ IF diag_server # None /\ ~is_in_diag_session(diag_server)
       THEN /\ ecu' = exit_diag_session(ecu, diag_server)
            /\ wire' = <<Call("exit_diag_session", diag_server, 0, <<>>, TRUE, <<>>, 0, "")>>
            /\ logged' =
                 <<add_msg(<<"Connection to ECU closed unexpectedly">>, "Info")>>
                 \o (IF get_last_error(diag_server) # ""
                     THEN <<add_msg(<<"--> ", get_last_error(diag_server)>>, "Info")>>
                     ELSE <<>>)
            /\ diag_server' = None
            /\ UNCHANGED home_enabled
       ELSE /\ wire' = <<>>
            /\ logged' = <<>>
            /\ UNCHANGED <<ecu, diag_server, home_enabled>>
    /\ handled' = "PollServer"
    /\ UNCHANGED <<can_clear_codes, can_send, payload_string, ecu_dtcs, dropped>>

PollServer ==
    /\ ~dropped
    /\ UNCHANGED driver_vars
    /\ IF diag_server # None /\ ~is_in_diag_session(diag_server)
       THEN /\ ecu' = exit_diag_session(ecu, diag_server)
            /\ wire' = <<Call("exit_diag_session", diag_server, 0, <<>>, TRUE, <<>>, 0, "")>>
            /\ logged' =
                 <<add_msg(<<"Connection to ECU closed unexpectedly">>, "Info")>>
                 \o (IF get_last_error(diag_server) # ""
                     THEN <<add_msg(<<"--> ", get_last_error(diag_server)>>, "Info")>>
                     ELSE <<>>)
            /\ diag_server' = None
            /\ home_enabled' = TRUE
       ELSE /\ wire' = <<>>
            /\ logged' = <<>>
            /\ UNCHANGED <<ecu, diag_server, home_enabled>>
    /\ handled' = "PollServer"
    /\ UNCHANGED <<can_clear_codes, can_send, payload_string, ecu_dtcs, dropped>>

ClearLogs ==
    /\ ~dropped
    /\ UNCHANGED driver_vars
    /\ logged' = <<>>
    /\ wire' = <<>>
    /\ handled' = "ClearLogs"
    /\ UNCHANGED <<diag_server, can_clear_codes, can_send, payload_string,
                   home_enabled, ecu, ecu_dtcs, dropped>>

ClearErrors ==
    /\ ~dropped
    /\ UNCHANGED driver_vars
    /\ IF diag_server # None
       THEN \E r \in Outcomes(diag_server) :
              /\ wire' = <<Call("clear_errors", diag_server, 0, <<>>, r.ok, <<>>, 0, r.err)>>
              /\ IF r.ok
                 THEN /\ ecu_dtcs' = 0
                      /\ logged' = <<add_msg(<<"ECU Errors cleared successfully">>, "Error")>>
                 ELSE /\ UNCHANGED ecu_dtcs
                      /\ logged' = <<add_msg(<<"Error clearing ECU errors: ", r.err>>, "Error")>>
       ELSE /\ wire' = <<>>
            /\ logged' = <<>>
            /\ UNCHANGED ecu_dtcs
    /\ handled' = "ClearErrors"
    /\ UNCHANGED <<diag_server, can_clear_codes, can_send, payload_string,
                   home_enabled, ecu, dropped>>

\* ReadCodes without the leading `self.can_clear_codes = false`.
ReadCodes_NoReset ==
    /\ ~dropped
    /\ UNCHANGED driver_vars
    /\ IF diag_server # None
       THEN \E r \in Outcomes(diag_server) :
              /\ wire' = <<Call("read_errors", diag_server, 0, <<>>, r.ok, <<>>,
                                IF r.ok THEN ecu_dtcs ELSE 0, r.err)>>
              /\ IF ~r.ok
                 THEN /\ logged' = <<add_msg(<<"Error reading ECU errors: ", r.err>>, "Error")>>
                      /\ can_clear_codes' = can_clear_codes
                 ELSE IF StoredErrors = <<>>
                 THEN /\ logged' = <<add_msg(<<"No ECU Errors found">>, "Info")>>
                      /\ can_clear_codes' = can_clear_codes
                 ELSE /\ logged' =
                           <<add_msg(<<"Found ", ToString(Len(StoredErrors)), " errors">>, "Warn")>>
                           \o [i \in 1..Len(StoredErrors) |-> add_msg(<<StoredErrors[i]>>, "Warn")]
                      /\ can_clear_codes' = TRUE
       ELSE /\ wire' = <<>>
            /\ can_clear_codes' = can_clear_codes
            /\ logged' = <<>>
    /\ handled' = "ReadCodes"
    /\ UNCHANGED <<diag_server, can_send, payload_string, home_enabled, ecu, ecu_dtcs, dropped>>

\* ReadCodes treating an empty list as a failed read.
ReadCodes_EmptyIsError ==
    /\ ~dropped
    /\ UNCHANGED driver_vars
    /\ IF diag_server # None
       THEN \E r \in Outcomes(diag_server) :
              /\ wire' = <<Call("read_errors", diag_server, 0, <<>>, r.ok, <<>>,
                                IF r.ok THEN ecu_dtcs ELSE 0, r.err)>>
              /\ IF ~r.ok
                 THEN /\ logged' = <<add_msg(<<"Error reading ECU errors: ", r.err>>, "Error")>>
                      /\ can_clear_codes' = FALSE
                 ELSE IF StoredErrors = <<>>
                 THEN /\ logged' = <<add_msg(<<"Error reading ECU errors: ", "no data">>, "Error")>>
                      /\ can_clear_codes' = FALSE
                 ELSE /\ logged' =
                           <<add_msg(<<"Found ", ToString(Len(StoredErrors)), " errors">>, "Warn")>>
                           \o [i \in 1..Len(StoredErrors) |-> add_msg(<<StoredErrors[i]>>, "Warn")]
                      /\ can_clear_codes' = TRUE
       ELSE /\ wire' = <<>>
            /\ can_clear_codes' = FALSE
            /\ logged' = <<>>
    /\ handled' = "ReadCodes"
    /\ UNCHANGED <<diag_server, can_send, payload_string, home_enabled, ecu, ecu_dtcs, dropped>>

ReadCodes ==
    /\ ~dropped
    /\ UNCHANGED driver_vars
    /\ IF diag_server # None
       THEN \E r \in Outcomes(diag_server) :
              /\ wire' = <<Call("read_errors", diag_server, 0, <<>>, r.ok, <<>>,
                                IF r.ok THEN ecu_dtcs ELSE 0, r.err)>>
              /\ IF ~r.ok
                 THEN /\ logged' = <<add_msg(<<"Error reading ECU errors: ", r.err>>, "Error")>>
                      /\ can_clear_codes' = FALSE
                 ELSE IF StoredErrors = <<>>
                 THEN /\ logged' = <<add_msg(<<"No ECU Errors found">>, "Info")>>
                      /\ can_clear_codes' = FALSE
                 ELSE /\ logged' =
                           <<add_msg(<<"Found ", ToString(Len(StoredErrors)), " errors">>, "Warn")>>
                           \o [i \in 1..Len(StoredErrors) |-> add_msg(<<StoredErrors[i]>>, "Warn")]
                      /\ can_clear_codes' = TRUE
       ELSE /\ wire' = <<>>
            /\ can_clear_codes' = FALSE
            /\ logged' = <<>>
    /\ handled' = "ReadCodes"
    /\ UNCHANGED <<diag_server, can_send, payload_string, home_enabled, ecu, ecu_dtcs, dropped>>

EnterPayload(s) ==
    /\ ~dropped
    /\ UNCHANGED driver_vars
    /\ payload_string' = s
    /\ can_send' = IF s = <<>> THEN FALSE
                   ELSE IF hex_decode(s).ok /\ Len(s) >= 4 THEN TRUE
                   ELSE can_send
    /\ wire' = <<>>
    /\ handled' = "EnterPayload"
    /\ logged' = <<>>
    /\ UNCHANGED <<diag_server, can_clear_codes, home_enabled, ecu, ecu_dtcs, dropped>>

\* SendPayload with the length test `r.len() >= 2` off by one.
SendPayload_AnyLength ==
    /\ ~dropped
    /\ UNCHANGED driver_vars
    /\ LET d == hex_decode(payload_string)
           r == d.bytes
       IN IF d.ok /\ Len(r) >= 1 /\ diag_server # None
          THEN \E o \in Outcomes(diag_server) : \E res \in RunResponses :
                 /\ wire' = <<Call("run_command", diag_server, r[1], SubSeq(r, 2, Len(r)),
                                   o.ok, IF o.ok THEN res ELSE <<>>, 0, o.err)>>
                 /\ logged' =
                      IF o.ok
                      THEN <<add_log(<<"Req:  ">> \o Fmt02X(r), <<"Resp: ">> \o Fmt02X(res), "Info")>>
                      ELSE <<add_log(<<"Req:  ">> \o Fmt02X(r), <<"Exec error: ", o.err>>, "Error")>>
          ELSE /\ wire' = <<>>
               /\ logged' = <<>>
    /\ handled' = "SendPayload"
    /\ UNCHANGED <<diag_server, can_clear_codes, can_send, payload_string,
                   home_enabled, ecu, ecu_dtcs, dropped>>

\* SendPayload sending the request a second time when the first fails.
SendPayload_RetryOnError ==
    /\ ~dropped
    /\ UNCHANGED driver_vars
    /\ LET d == hex_decode(payload_string)
           r == d.bytes
       IN IF d.ok /\ Len(r) >= 2 /\ diag_server # None
          THEN \E o \in Outcomes(diag_server) : \E res \in RunResponses :
                 /\ wire' = <<Call("run_command", diag_server, r[1], SubSeq(r, 2, Len(r)),
                                   o.ok, IF o.ok THEN res ELSE <<>>, 0, o.err)>>
                            \o (IF o.ok THEN <<>>
                                ELSE <<Call("run_command", diag_server, r[1],
                                            SubSeq(r, 2, Len(r)), FALSE, <<>>, 0, o.err)>>)
                 /\ logged' =
                      IF o.ok
                      THEN <<add_log(<<"Req:  ">> \o Fmt02X(r), <<"Resp: ">> \o Fmt02X(res), "Info")>>
                      ELSE <<add_log(<<"Req:  ">> \o Fmt02X(r), <<"Exec error: ", o.err>>, "Error")>>
          ELSE /\ wire' = <<>>
               /\ logged' = <<>>
    /\ handled' = "SendPayload"
    /\ UNCHANGED <<diag_server, can_clear_codes, can_send, payload_string,
                   home_enabled, ecu, ecu_dtcs, dropped>>

SendPayload ==
    /\ ~dropped
    /\ UNCHANGED driver_vars
    /\ LET d == hex_decode(payload_string)
           r == d.bytes
       IN IF d.ok /\ Len(r) >= 2 /\ diag_server # None
          THEN \E o \in Outcomes(diag_server) : \E res \in RunResponses :
                 /\ wire' = <<Call("run_command", diag_server, r[1], SubSeq(r, 2, Len(r)),
                                   o.ok, IF o.ok THEN res ELSE <<>>, 0, o.err)>>
                 /\ logged' =
                      IF o.ok
                      THEN <<add_log(<<"Req:  ">> \o Fmt02X(r), <<"Resp: ">> \o Fmt02X(res), "Info")>>
                      ELSE <<add_log(<<"Req:  ">> \o Fmt02X(r), <<"Exec error: ", o.err>>, "Error")>>
          ELSE /\ wire' = <<>>
               /\ logged' = <<>>
    /\ handled' = "SendPayload"
    /\ UNCHANGED <<diag_server, can_clear_codes, can_send, payload_string,
                   home_enabled, ecu, ecu_dtcs, dropped>>

\* Back, LoadErrorDefinition: the `_ => {}` arm.
OtherMsg ==
    /\ ~dropped
    /\ UNCHANGED driver_vars
    /\ wire' = <<>>
    /\ handled' = "Other"
    /\ logged' = <<>>
    /\ UNCHANGED <<diag_server, can_clear_codes, can_send, payload_string,
                   home_enabled, ecu, ecu_dtcs, dropped>>

\* impl Drop for KWP2000DiagSession
Drop ==
    /\ ~dropped
    /\ UNCHANGED driver_vars
    /\ IF diag_server # None
       THEN /\ ecu' = exit_diag_session(ecu, diag_server)
            /\ wire' = <<Call("exit_diag_session", diag_server, 0, <<>>, TRUE, <<>>, 0, "")>>
       ELSE /\ wire' = <<>>
            /\ UNCHANGED ecu
    /\ dropped' = TRUE
    /\ handled' = "-"
    /\ logged' = <<>>
    /\ UNCHANGED <<diag_server, can_clear_codes, can_send, payload_string,
                   home_enabled, ecu_dtcs>>

\* ------------------------------------------------------------- the ECU side
\* The held session ends without a caller action (a missed keep-alive, a
\* failed read): it leaves its diagnostic session and records why.
SessionFault ==
    /\ ~dropped
    /\ UNCHANGED driver_vars
    /\ diag_server # None
    /\ is_in_diag_session(diag_server)
    /\ \E e \in ErrTexts :
          ecu' = [ecu EXCEPT ![diag_server].in_diag = FALSE,
                             ![diag_server].last_error = e]
    /\ wire' = <<>>
    /\ handled' = "-"
    /\ logged' = <<>>
    /\ UNCHANGED <<diag_server, can_clear_codes, can_send, payload_string,
                   home_enabled, ecu_dtcs, dropped>>

\* The vehicle stores one more fault record.
DtcAppears ==
    /\ ~dropped
    /\ UNCHANGED driver_vars
    /\ ecu_dtcs < MaxFaults
    /\ ecu_dtcs' = ecu_dtcs + 1
    /\ wire' = <<>>
    /\ handled' = "-"
    /\ logged' = <<>>
    /\ UNCHANGED <<diag_server, can_clear_codes, can_send, payload_string,
                   home_enabled, ecu, dropped>>

\* KWP2000DiagSession::subscription: the poll tick is subscribed while a
\* session object is held.
subscription == IF diag_server # None THEN "PollServer every 250 ms" ELSE "none"

\* KWP2000DiagSession::view: whether the session block of the window is shown.
in_session == IF diag_server # None THEN is_in_diag_session(diag_server) ELSE FALSE

\* KWP2000DiagSession::view: the messages the window's controls can emit.
view ==
    (IF in_session THEN {"DisconnectECU"} ELSE {"ConnectECU"})
    \cup (IF ~in_session THEN {"Back"}
          ELSE {"ReadCodes", "EnterPayload"}
               \cup (IF can_clear_codes THEN {"ClearErrors"} ELSE {})
               \cup (IF can_send THEN {"SendPayload"} ELSE {}))
    \cup {"ClearLogs"}

\* ============================================================ app/src/lib.rs
Threads == 1..NumThreads

\* What a #[js_function] hands back to JavaScript.
Ret(fn, tag, text, val) == [fn |-> fn, tag |-> tag, text |-> text, val |-> val]

NoRet == Ret("-", "-", "", 0)

\* The argument of connect_device: a PassthruDevice, or a value
\* from_js_value rejects.
DeviceArgs == {"device", "not a device"}

\* The argument of get_vbatt: a device index, or a value u32::try_from rejects.
IndexArgs == {"index", "not a number"}

\* x.to_string() of a failed load_lib.
LoadErrTexts == {"Library not found"}

\* Raw status codes of PassthruDrv::ioctl: STATUS_NOERROR, ERR_FAILED.
IoctlStatus == {0, 7}

\* Millivolts READ_VBATT writes through the output pointer.
Millivolts == {12000}

DriverInit ==
    /\ DRIVER = None
    /\ pc = [t \in Threads |-> "idle"]
    /\ ret = [t \in Threads |-> NoRet]
    /\ ncalls = 0
    /\ installed = <<>>
    /\ loads = 0
    /\ opens = 0
    /\ ioctls = <<>>

\* The library load_lib returns, numbered by the load that made it.
NewLib == loads + 1

\* connect_device, lines 42-43: the argument is read.
connect_device(t) ==
    /\ pc[t] = "idle"
    /\ UNCHANGED session_vars
    /\ ncalls < MaxCalls
    /\ ncalls' = ncalls + 1
    /\ \E a \in DeviceArgs :
          IF a = "device"
          THEN /\ pc' = [pc EXCEPT ![t] = "cd45"]
               /\ ret' = [ret EXCEPT ![t] = NoRet]
          ELSE /\ ret' = [ret EXCEPT ![t] = Ret("connect_device", "Err", "InvalidArg", 0)]
               /\ UNCHANGED pc
    /\ UNCHANGED <<DRIVER, installed, loads, opens, ioctls>>

\* connect_device without the early return of lines 45-47.
cd45_NoReturn(t) ==
    /\ pc[t] = "cd45"
    /\ UNCHANGED session_vars
    /\ pc' = [pc EXCEPT ![t] = "cd49"]
    /\ UNCHANGED ret
    /\ UNCHANGED <<DRIVER, ncalls, installed, loads, opens, ioctls>>

\* connect_device, lines 45-47: DRIVER.read().is_some()
cd45(t) ==
    /\ pc[t] = "cd45"
    /\ UNCHANGED session_vars
    /\ IF DRIVER # None
       THEN /\ pc' = [pc EXCEPT ![t] = "idle"]
            /\ ret' = [ret EXCEPT ![t] = Ret("connect_device", "LoadErr", "Driver in use!", 0)]
       ELSE /\ pc' = [pc EXCEPT ![t] = "cd49"]
            /\ UNCHANGED ret
    /\ UNCHANGED <<DRIVER, ncalls, installed, loads, opens, ioctls>>

\* connect_device, lines 49-52: load_lib, then DRIVER.write().replace(d)
cd49(t) ==
    /\ pc[t] = "cd49"
    /\ UNCHANGED session_vars
    /\ loads' = loads + 1
    /\ \/ /\ DRIVER' = NewLib
          /\ installed' = Append(installed, NewLib)
          /\ pc' = [pc EXCEPT ![t] = "cd53"]
          /\ UNCHANGED ret
       \/ \E x \in LoadErrTexts :
          /\ pc' = [pc EXCEPT ![t] = "idle"]
          /\ ret' = [ret EXCEPT ![t] = Ret("connect_device", "LoadErr", x, 0)]
          /\ UNCHANGED <<DRIVER, installed>>
    /\ UNCHANGED <<ncalls, opens, ioctls>>

\* connect_device, lines 53-56: DRIVER.write().as_ref().unwrap().open()
\* connect_device whose failed open takes the library out of DRIVER again.
cd53_ClearsOnFailure(t) ==
    /\ pc[t] = "cd53"
    /\ UNCHANGED session_vars
    /\ pc' = [pc EXCEPT ![t] = "idle"]
    /\ IF DRIVER = None
       THEN /\ ret' = [ret EXCEPT ![t] = Ret("connect_device", "panic", "unwrap on None", 0)]
            /\ UNCHANGED <<opens, DRIVER>>
       ELSE /\ opens' = opens + 1
            /\ \/ /\ ret' = [ret EXCEPT ![t] = Ret("connect_device", "Device", "", 1)]
                  /\ UNCHANGED DRIVER
               \/ /\ ret' = [ret EXCEPT ![t] = Ret("connect_device", "LoadErr", "ERR_FAILED", 0)]
                  /\ DRIVER' = None
    /\ UNCHANGED <<ncalls, installed, loads, ioctls>>

cd53(t) ==
    /\ pc[t] = "cd53"
    /\ UNCHANGED session_vars
    /\ pc' = [pc EXCEPT ![t] = "idle"]
    /\ IF DRIVER = None
       THEN /\ ret' = [ret EXCEPT ![t] = Ret("connect_device", "panic", "unwrap on None", 0)]
            /\ UNCHANGED opens
       ELSE /\ opens' = opens + 1
            /\ \/ ret' = [ret EXCEPT ![t] = Ret("connect_device", "Device", "", 1)]
               \/ ret' = [ret EXCEPT ![t] = Ret("connect_device", "LoadErr", "ERR_FAILED", 0)]
    /\ UNCHANGED <<DRIVER, ncalls, installed, loads, ioctls>>

\* get_vbatt, line 61: the index is read.
get_vbatt(t) ==
    /\ pc[t] = "idle"
    /\ UNCHANGED session_vars
    /\ ncalls < MaxCalls
    /\ ncalls' = ncalls + 1
    /\ \E a \in IndexArgs :
          IF a = "index"
          THEN /\ pc' = [pc EXCEPT ![t] = "vb62"]
               /\ ret' = [ret EXCEPT ![t] = NoRet]
          ELSE /\ ret' = [ret EXCEPT ![t] = Ret("get_vbatt", "Err", "InvalidArg", 0)]
               /\ UNCHANGED pc
    /\ UNCHANGED <<DRIVER, installed, loads, opens, ioctls>>

\* get_vbatt, lines 62-64: DRIVER.read().is_none()
vb62(t) ==
    /\ pc[t] = "vb62"
    /\ UNCHANGED session_vars
    /\ IF DRIVER = None
       THEN /\ pc' = [pc EXCEPT ![t] = "idle"]
            /\ ret' = [ret EXCEPT ![t] = Ret("get_vbatt", "LoadErr", "No driver!", 0)]
       ELSE /\ pc' = [pc EXCEPT ![t] = "vb73"]
            /\ UNCHANGED ret
    /\ UNCHANGED <<DRIVER, ncalls, installed, loads, opens, ioctls>>

\* get_vbatt returning the voltage whatever status ioctl gave.
vb73_IgnoresStatus(t) ==
    /\ pc[t] = "vb73"
    /\ UNCHANGED session_vars
    /\ pc' = [pc EXCEPT ![t] = "idle"]
    /\ IF DRIVER = None
       THEN /\ ret' = [ret EXCEPT ![t] = Ret("get_vbatt", "panic", "unwrap on None", 0)]
            /\ UNCHANGED ioctls
       ELSE \E n \in IoctlStatus : \E mv \in Millivolts :
               /\ ioctls' = Append(ioctls, n)
               /\ ret' = [ret EXCEPT ![t] = Ret("get_vbatt", "Voltage", "", mv)]
    /\ UNCHANGED <<DRIVER, ncalls, installed, loads, opens>>

\* get_vbatt, lines 71-76: DRIVER.write().as_ref().unwrap().ioctl(READ_VBATT)
vb73(t) ==
    /\ pc[t] = "vb73"
    /\ UNCHANGED session_vars
    /\ pc' = [pc EXCEPT ![t] = "idle"]
    /\ IF DRIVER = None
       THEN /\ ret' = [ret EXCEPT ![t] = Ret("get_vbatt", "panic", "unwrap on None", 0)]
            /\ UNCHANGED ioctls
       ELSE \E n \in IoctlStatus : \E mv \in Millivolts :
               /\ ioctls' = Append(ioctls, n)
               /\ ret' = [ret EXCEPT ![t] =
                            IF n = 0 THEN Ret("get_vbatt", "Voltage", "", mv)
                            ELSE Ret("get_vbatt", "LoadErr",
                                     "Error code " \o ToString(n) \o "!", 0)]
    /\ UNCHANGED <<DRIVER, ncalls, installed, loads, opens>>

DriverNext ==
    \/ \E t \in Threads : connect_device(t)
    \/ \E t \in Threads : cd45(t)
    \/ \E t \in Threads : cd49(t)
    \/ \E t \in Threads : cd53(t)
    \/ \E t \in Threads : get_vbatt(t)
    \/ \E t \in Threads : vb62(t)
    \/ \E t \in Threads : vb73(t)

Init == SessionInit /\ DriverInit

Next ==
    \/ ConnectECU
    \/ DisconnectECU
    \/ PollServer
    \/ ClearLogs
    \/ ClearErrors
    \/ ReadCodes
    \/ \E s \in PayloadInputs : EnterPayload(s)
    \/ SendPayload
    \/ OtherMsg
    \/ Drop
    \/ SessionFault
    \/ DtcAppears

Spec == Init /\ [][Next]_vars

DriverSpec == Init /\ [][DriverNext]_vars

\* ================================================================== claims
\* The sessions start_diag_session has handed out.
Made == { s \in SessionIds : ecu[s].made }

\* The one call of the last step, when it made exactly one.
TheCall == wire[1]

\* ------------------------------------------------------------------------
\* C1: every session obtained from a successful ConnectECU has
\* exit_diag_session invoked on it at most once at any time, and exactly
\* once by the time the window has been dropped.
C1_ExitExactlyOnce ==
    /\ \A s \in Made : ecu[s].exits <= 1
    /\ dropped => \A s \in Made : ecu[s].exits = 1

\* ------------------------------------------------------------------------
\* C2: ConnectECU ends either with the new session held and active, or with
\* the error text logged and no session made; and whenever the window is
\* Closed (diag_server None) no started session is left un-released.
C2_ConnectOutcomeAndNoLeak ==
    /\ handled = "ConnectECU" =>
          /\ Len(wire) = 1 /\ TheCall.op = "start_diag_session"
          /\ IF TheCall.ok
             THEN /\ diag_server = TheCall.sid
                  /\ is_in_diag_session(diag_server)
                  /\ ~home_enabled
             ELSE /\ TheCall.sid = None
                  /\ logged = <<add_msg(<<"Error connecting to ECU (", TheCall.err, ")">>, "Info")>>
    /\ diag_server = None => \A s \in Made : ecu[s].exits >= 1

\* ------------------------------------------------------------------------
\* C3: handling DisconnectECU always leaves the window Closed (no session
\* held, home navigation enabled), and handling it again right after leaves
\* that state as it is and calls exit_diag_session on nothing.
C3_DisconnectIdempotent ==
    [][/\ handled' = "DisconnectECU" => diag_server' = None /\ home_enabled'
       /\ (handled = "DisconnectECU" /\ handled' = "DisconnectECU") =>
             /\ wire' = <<>>
             /\ ecu' = ecu
             /\ <<diag_server, home_enabled, can_clear_codes, can_send, payload_string>>'
                  = <<diag_server, home_enabled, can_clear_codes, can_send, payload_string>>
      ]_vars

\* A second DisconnectECU has been handled on the window that the first one
\* closed: the only session ever made was released without having faulted.
C3_Witness ==
    /\ handled = "DisconnectECU"
    /\ wire = <<>>
    /\ diag_server = None
    /\ Made = {1}
    /\ ecu[1].exits = 1
    /\ ecu[1].last_error = ""
    /\ ~dropped

\* ------------------------------------------------------------------------
\* C4: can_send is true only if the entered payload is valid hex that
\* decodes to at least 2 bytes.
C4_SendGate ==
    can_send => (hex_decode(payload_string).ok /\ Len(hex_decode(payload_string).bytes) >= 2)

\* ------------------------------------------------------------------------
\* C5: SendPayload calls run_command only when the stored payload is an even
\* number of hex digits making at least 2 bytes; the request is then the
\* first byte as service and the rest as payload, and the logged response
\* reads back as exactly the bytes the backend returned. Otherwise nothing
\* is sent, whatever can_send is.
ValidHex(s) == Len(s) % 2 = 0 /\ \A i \in 1..Len(s) : IsHexChar(s[i])

\* Reads "Resp: [62, F1, 90]" back into bytes.
RECURSIVE ReadHexTokens(_)
ReadHexTokens(toks) ==
    IF toks = <<>> THEN <<>>
    ELSE IF toks[1] \in {"Resp: ", "[", "]", ", "} THEN ReadHexTokens(Tail(toks))
    ELSE <<HexVal(toks[1]) * 16 + HexVal(toks[2])>> \o ReadHexTokens(Tail(Tail(toks)))

C5_SendPayloadRequest ==
    handled = "SendPayload" =>
       /\ wire # <<>> =>
             /\ Len(wire) = 1 /\ TheCall.op = "run_command"
             /\ ValidHex(payload_string) /\ Len(payload_string) >= 4
             /\ <<TheCall.service>> \o TheCall.payload = hex_decode(payload_string).bytes
             /\ payload_string = <<"2", "2", "F", "1", "9", "0">> =>
                   TheCall.service = 34 /\ TheCall.payload = <<241, 144>>
             /\ TheCall.ok =>
                   /\ Len(logged) = 1
                   /\ ReadHexTokens(logged[1].detail) = TheCall.bytes
       /\ (~ValidHex(payload_string) \/ Len(payload_string) < 4) => wire = <<>>

\* The spec's example: 22 F1 90 was sent and 62 F1 90 AA BB came back, with
\* the Send button never armed or not.
C5_Witness ==
    /\ handled = "SendPayload"
    /\ wire # <<>>
    /\ TheCall.ok
    /\ TheCall.service = 34
    /\ TheCall.payload = <<241, 144>>
    /\ TheCall.bytes = <<98, 241, 144, 170, 187>>
    /\ logged[1].detail = <<"Resp: ", "[", "6", "2", ", ", "F", "1", ", ", "9", "0", ", ",
                            "A", "A", ", ", "B", "B", "]">>

\* ------------------------------------------------------------------------
\* C6: once a session has stopped without a caller action, the next
\* PollServer tick has released it, left the window Closed with home
\* navigation enabled, and logged its non-empty last-error text.
Faulted == { s \in Made : ecu[s].last_error # "" }

C6_PollRecoversFault ==
    handled = "PollServer" =>
       /\ \A s \in Faulted : ecu[s].exits = 1
       /\ wire # <<>> =>
             /\ diag_server = None
             /\ home_enabled
             /\ \E i \in 1..Len(logged) :
                   /\ logged[i].text[1] = "--> "
                   /\ logged[i].text[2] \in ErrTexts

\* ------------------------------------------------------------------------
\* C7: a connect_device call whose check at line 45 finds a driver loaded
\* returns "Driver in use!" at once, calls neither load_lib nor open, and
\* leaves DRIVER as it is.
C7_DriverInUse ==
    [][\A t \in Threads :
          (pc[t] = "cd45" /\ DRIVER # None /\ pc'[t] # "cd45") =>
             /\ pc'[t] = "idle"
             /\ ret'[t] = Ret("connect_device", "LoadErr", "Driver in use!", 0)
             /\ DRIVER' = DRIVER
             /\ installed' = installed
             /\ loads' = loads
             /\ opens' = opens
      ]_vars

\* A call was turned away while the driver some earlier call loaded stays.
C7_Witness ==
    \E t \in Threads :
       /\ pc[t] = "idle"
       /\ ret[t] = Ret("connect_device", "LoadErr", "Driver in use!", 0)
       /\ DRIVER # None
       /\ installed = <<DRIVER>>

\* ------------------------------------------------------------------------
\* C8: of concurrent connect_device calls at most one installs a driver: the
\* DRIVER singleton is written at most once and never overwritten.
C8_AtMostOneInstall ==
    /\ Len(installed) <= 1
    /\ DRIVER # None => installed = <<DRIVER>>

\* ------------------------------------------------------------------------
\* C9: after a successful ClearErrors can_clear_codes is reset; a failed
\* ClearErrors logs the error.
C9_ClearInvalidates ==
    (handled = "ClearErrors" /\ wire # <<>>) =>
       IF TheCall.ok
       THEN ~can_clear_codes
       ELSE logged = <<add_msg(<<"Error clearing ECU errors: ", TheCall.err>>, "Error")>>

\* ------------------------------------------------------------------------
\* C10: a ReadCodes handled while a session is held makes one read_errors
\* query, and afterwards can_clear_codes is true exactly when that query
\* returned a non-empty list; an empty list is reported as no faults.
C10_ReadCodesFresh ==
    (handled = "ReadCodes" /\ diag_server # None) =>
       /\ Len(wire) = 1 /\ TheCall.op = "read_errors" /\ TheCall.sid = diag_server
       /\ can_clear_codes = (TheCall.ok /\ TheCall.n > 0)
       /\ (TheCall.ok /\ TheCall.n = 0) =>
             logged = <<add_msg(<<"No ECU Errors found">>, "Info")>>
       /\ (TheCall.ok /\ TheCall.n > 0) =>
             /\ Len(logged) = TheCall.n + 1
             /\ logged[1] = add_msg(<<"Found ", ToString(TheCall.n), " errors">>, "Warn")

\* A read on an ECU whose fault list is empty reported no faults.
C10_Witness ==
    /\ handled = "ReadCodes"
    /\ diag_server # None
    /\ wire # <<>>
    /\ TheCall.ok
    /\ TheCall.n = 0
    /\ ecu_dtcs = 0
    /\ ~can_clear_codes
    /\ logged = <<add_msg(<<"No ECU Errors found">>, "Info")>>

\* ------------------------------------------------------------------------
\* C11: a ReadCodes whose read succeeds with zero records logs the "no
\* faults" line as information and leaves can_clear_codes false; a failed
\* read logs an error line instead; in both cases the session stays held
\* and untouched.
C11_EmptyReadIsNotFailure ==
    [][(handled' = "ReadCodes" /\ wire' # <<>>) =>
          /\ diag_server' = diag_server
          /\ diag_server' # None
          /\ ecu' = ecu
          /\ home_enabled' = home_enabled
          /\ (wire'[1].ok /\ wire'[1].n = 0) =>
                /\ logged' = <<add_msg(<<"No ECU Errors found">>, "Info")>>
                /\ ~can_clear_codes'
          /\ ~wire'[1].ok =>
                /\ logged' = <<add_msg(<<"Error reading ECU errors: ", wire'[1].err>>, "Error")>>
                /\ ~can_clear_codes'
      ]_vars

\* An empty read was reported as information on a session that is still
\* held and still in its diagnostic session.
C11_Witness ==
    /\ handled = "ReadCodes"
    /\ wire # <<>>
    /\ TheCall.ok /\ TheCall.n = 0
    /\ Len(logged) = 1 /\ logged[1].type = "Info"
    /\ diag_server # None
    /\ is_in_diag_session(diag_server)
    /\ ecu[diag_server].exits = 0
    /\ ~home_enabled

\* ------------------------------------------------------------------------
\* C12: run_command is called only by the step that handles SendPayload,
\* and at most once by it; when that call fails the error is logged with
\* the request and nothing more is sent.
C12_NoImplicitRetry ==
    /\ \A i \in 1..Len(wire) : wire[i].op = "run_command" => handled = "SendPayload"
    /\ handled = "SendPayload" =>
          /\ Len(wire) <= 1
          /\ (wire # <<>> /\ ~TheCall.ok) =>
                logged = <<add_log(<<"Req:  ">> \o Fmt02X(<<TheCall.service>> \o TheCall.payload),
                                   <<"Exec error: ", TheCall.err>>, "Error")>>

\* A command failed: one call on the wire, the error in the log.
C12_Witness ==
    /\ handled = "SendPayload"
    /\ Len(wire) = 1
    /\ TheCall.op = "run_command"
    /\ ~TheCall.ok
    /\ is_in_diag_session(TheCall.sid)
    /\ logged[1].type = "Error"
    /\ logged[1].detail = <<"Exec error: ", TheCall.err>>

\* ------------------------------------------------------------------------
\* C13: at any time at most one session has been started and not yet had
\* exit_diag_session called on it.
C13_OneLiveSession ==
    Cardinality({ s \in Made : ecu[s].exits = 0 }) <= 1

\* ------------------------------------------------------------------------
\* C14: run_command, read_errors and clear_errors are called only on a held
\* session that is still in its diagnostic session; with no session, or
\* with a session that has stopped and not yet been polled, nothing is sent.
ProtocolOps == {"run_command", "read_errors", "clear_errors"}

C14_RequestsOnlyWhileActive ==
    \A i \in 1..Len(wire) :
       wire[i].op \in ProtocolOps =>
          /\ diag_server # None
          /\ wire[i].sid = diag_server
          /\ is_in_diag_session(diag_server)

\* ------------------------------------------------------------------------
\* C15: get_vbatt with no driver loaded returns "No driver!" and makes no
\* ioctl; otherwise it makes exactly one ioctl, at line 73, and returns the
\* voltage exactly when the status is 0, else "Error code <status>!".
C15_GetVbatt ==
    [][\A t \in Threads :
          /\ (pc[t] = "idle" /\ pc'[t] # "idle") => ioctls' = ioctls
          /\ (pc[t] = "vb62" /\ pc'[t] # "vb62") =>
                /\ ioctls' = ioctls
                /\ IF DRIVER = None
                   THEN /\ pc'[t] = "idle"
                        /\ ret'[t] = Ret("get_vbatt", "LoadErr", "No driver!", 0)
                   ELSE pc'[t] = "vb73"
          /\ (pc[t] = "vb73" /\ pc'[t] # "vb73") =>
                /\ pc'[t] = "idle"
                /\ Len(ioctls') = Len(ioctls) + 1
                /\ SubSeq(ioctls', 1, Len(ioctls)) = ioctls
                /\ LET n == ioctls'[Len(ioctls')]
                   IN /\ (ret'[t].tag = "Voltage") <=> (n = 0)
                      /\ n = 0 => ret'[t].val \in Millivolts
                      /\ n # 0 => ret'[t] = Ret("get_vbatt", "LoadErr",
                                               "Error code " \o ToString(n) \o "!", 0)
      ]_vars

\* Two get_vbatt calls on the loaded driver: one read the voltage, one got
\* status 7 back.
C15_Witness ==
    \E t, u \in Threads :
       /\ ret[t].tag = "Voltage"
       /\ ret[u] = Ret("get_vbatt", "LoadErr", "Error code 7!", 0)
       /\ Len(ioctls) = 2
       /\ DRIVER # None

\* ------------------------------------------------------------------------
\* C16: a connect_device call that ends in an error leaves DRIVER as it was
\* before the call. For the errors of lines 46 and 51 that is DRIVER as the
\* step found it; for a failed open the call itself had found DRIVER None,
\* and when its install is the only one ever made, None is what it must
\* leave.
C16_FailedConnectLeavesDriver ==
    [][\A t \in Threads :
          (pc[t] \in {"cd45", "cd49", "cd53"} /\ pc'[t] = "idle" /\ ret'[t].tag = "LoadErr") =>
             IF pc[t] = "cd53"
             THEN Len(installed) = 1 => DRIVER' = None
             ELSE DRIVER' = DRIVER
      ]_vars

\* ------------------------------------------------------------------------
\* C17: under any interleaving of connect_device and get_vbatt, DRIVER once
\* Some never becomes None again, a call that stands before its unwrap
\* (line 53, line 73) finds a driver there, and no call ends in the panic of
\* an unwrap on None.
C17_UnwrapFindsDriver ==
    [][/\ (DRIVER # None => DRIVER' # None)
       /\ \A t \in Threads : pc'[t] \in {"cd53", "vb73"} => DRIVER' # None
       /\ \A t \in Threads : ret'[t].tag # "panic"
      ]_vars

\* Two calls stand before their unwraps at once, each having released the
\* lock since its check.
C17_Witness ==
    \E t, u \in Threads :
       /\ t # u
       /\ pc[t] = "vb73"
       /\ pc[u] = "cd53"
       /\ DRIVER # None

\* ------------------------------------------------------------------------
\* C18: home navigation is disabled exactly when the wrapper holds a
\* session object, and the poll subscription is active in exactly those
\* states.
C18_HomeAndPollFollowSession ==
    /\ home_enabled <=> diag_server = None
    /\ subscription # "none" <=> ~home_enabled

\* PollServer has just torn down a session that ended on its own.
C18_Witness ==
    /\ handled = "PollServer"
    /\ wire # <<>>
    /\ TheCall.op = "exit_diag_session"
    /\ home_enabled
    /\ diag_server = None
    /\ subscription = "none"

\* ------------------------------------------------------------------------
\* C19: can_clear_codes is true only while a session is held; it does not
\* survive a DisconnectECU, a teardown by PollServer, or a ConnectECU that
\* stored a new session.
C19_ClearFlagWithinSession ==
    /\ can_clear_codes => diag_server # None
    /\ handled = "DisconnectECU" => ~can_clear_codes
    /\ (handled = "PollServer" /\ wire # <<>>) => ~can_clear_codes
    /\ (handled = "ConnectECU" /\ TheCall.ok) => ~can_clear_codes

====
